---- MODULE Spec2Model ----
(***************************************************************************)
(* Model of the mobile API client (src/mobile/src/api/client.ts): the      *)
(* 401 -> refresh -> replay protocol of ApiClient.request, the refresh     *)
(* exchange of ApiClient.refreshToken, the module-level coordination       *)
(* state (isRefreshing, failedQueue, retryMap) and the credential helpers  *)
(* setAuthData / clearAuthData.                                            *)
(*                                                                         *)
(* The runtime is single-threaded: every action below is one synchronous   *)
(* turn, from the resumption of one `await` to the next `await` (or to the *)
(* settlement of the call).  The environment (API server, refresh          *)
(* endpoint, timers) chooses the outcome of every transport call.          *)
(* AsyncStorage is taken to be reliable: getItem/setItem/removeItem never  *)
(* reject, and each takes effect atomically when its promise resolves.     *)
(***************************************************************************)
EXTENDS Naturals, Sequences, FiniteSets

\* ------------------------------------------------------------------ bounds
MaxCalls == 3      \* invocations of request()
MaxCredCalls == 2  \* invocations of request() in runs with credential operations
MaxTokens == 3     \* credential pairs the server issues (pair 1 is stored at start)
MaxCredOps == 1    \* invocations of setAuthData and clearAuthData together

Calls == 1..MaxCalls

\* ApiError.status is optional (status?: number); 0 stands for `undefined`.
NoStatus == 0

VARIABLES
  isRefreshing,   \* client.ts:12
  failedQueue,    \* client.ts:13, the waiters, by call
  retryMap,       \* client.ts:16, the request ids whose marker is true
  store,          \* AsyncStorage slots auth_token, refresh_token, user_data (0: absent)
  defaultAuth,    \* this.defaultHeaders.Authorization (Bearer n, or none)
  calls,          \* each invocation of request(): its locals and position
  now,            \* Date.now()
  rt,             \* locals of the running refreshToken()
  login,          \* the running setAuthData
  logout,         \* the running clearAuthData
  issued,         \* credential pairs the server has issued so far
  exchanges,      \* refresh tokens sent to POST /auth/refresh-tokens, in order
  hist            \* history flags, read by no action's guard

vars == <<isRefreshing, failedQueue, retryMap, store, defaultAuth, calls, now,
          rt, login, logout, issued, exchanges, hist>>

\* ----------------------------------------------------------------- headers
NoHeader == <<>>
Bearer(n) == <<"Bearer", n>>
CallerHeader == <<"Caller">>

\* { ...this.defaultHeaders, ...authHeaders, ...headers }: the Authorization entry.
\* authTok is the token getAuthHeaders read (0: it returned {}).
RequestHeaders(def, authTok, own) ==
  IF own THEN CallerHeader
  ELSE IF authTok # 0 THEN Bearer(authTok)
  ELSE def

\* { ...this.defaultHeaders, Authorization: `Bearer ${token}`, ...headers }
RetryHeaders(tok, own) ==
  IF own THEN CallerHeader ELSE Bearer(tok)

\* ------------------------------------------------------------------ errors
Or(m, d) == IF m = "" THEN d ELSE m

ErrorObj(name, message) ==
  [isError |-> TRUE, name |-> name, message |-> message, status |-> NoStatus]

PlainObj(message, status) ==
  [isError |-> FALSE, name |-> "", message |-> message, status |-> status]

AbortError == ErrorObj("AbortError", "Aborted")
NetworkError == ErrorObj("TypeError", "Network request failed")
\* the parsed body of a non-2xx response: { message }
Body == PlainObj("server message", NoStatus)

\* handleError(error, status?): the status of the result is the ARGUMENT, never
\* error.status.  No error of the model carries a `response` field.
handleError(error, status) ==
  IF error.isError
  THEN PlainObj(Or(error.message, "An unexpected error occurred"), status)
  ELSE PlainObj(Or(error.message, "Network error. Please check your connection."), status)

\* the catch of request()'s outer try
OuterCatch(error) ==
  IF error.name = "AbortError"
  THEN PlainObj("Request timeout. Please try again.", 408)
  ELSE handleError(error, NoStatus)

\* --------------------------------------------------------------- outcomes
Outcomes == {"s200", "s401", "s500", "neterr", "abort"}
IsResponse(out) == out \in {"s200", "s401", "s500"}
StatusOf(out) == CASE out = "s200" -> 200 [] out = "s401" -> 401 [] out = "s500" -> 500
                   [] OTHER -> NoStatus
Ok(out) == IsResponse(out) /\ StatusOf(out) >= 200 /\ StatusOf(out) <= 299
\* what `await fetch(...)` throws
Thrown(out) == IF out = "abort" THEN AbortError ELSE NetworkError

\* ------------------------------------------------------------------- calls
Urls == {"/a", "/auth/refresh-tokens"}

\* a client that treats no url as the refresh endpoint
IsRefreshEndpoint_Never(url) == FALSE

\* url.includes('/auth/refresh-tokens')
IsRefreshEndpoint(url) == url = "/auth/refresh-tokens"

\* `${method}:${url}:${Date.now()}` (every call of the model uses method GET)
RequestId(url, t) == <<"GET", url, t>>

NoResult == [ok |-> FALSE, message |-> "", status |-> NoStatus]
Success == [ok |-> TRUE, message |-> "", status |-> NoStatus]
Failure(err) == [ok |-> FALSE, message |-> err.message, status |-> err.status]

Range(q) == {q[i] : i \in 1..Len(q)}

\* a drain is named by the leader that ran processQueue and the place it ran it
NoDrain == <<>>
DrainAt(leader, place) == <<leader, place>>

NewCall ==
  [pc |-> "new", url |-> "/a", requestId |-> RequestId("/a", 0), hasRetried |-> FALSE,
   ownAuth |-> FALSE, role |-> "none",
   sent |-> <<>>,      \* the Authorization header of each transport attempt
   outs |-> <<>>,      \* the outcome of each transport attempt
   aborts |-> 0,       \* transport attempts cancelled by controller.abort()
   joins |-> 0,        \* times the call started or joined a refresh
   cycle |-> 0,        \* the refresh cycle it led or joined, by its leader
   inExch |-> FALSE,   \* waiter: the exchange was in flight when it enqueued
   pos |-> 0,          \* waiter: its index in failedQueue after its push
   drain |-> NoDrain,  \* waiter: the drain that released it
   turn |-> 0,         \* waiter: the iteration of the drain's forEach that ran its closure
   given |-> 0,        \* the token refreshToken() returned or the drain handed over
                       \* (0: null, an error)
   exch |-> "none",    \* leader: how its refreshToken() call ended
   clean |-> FALSE,    \* it started and issued after a failed exchange, before any login
   res |-> NoResult]


Attempts(c) == Len(calls[c].sent)
ExchangePcs == {"rt_read", "rt_fetch", "rt_set_auth", "rt_set_refresh", "rt_set_user",
                "rt_clr_auth", "rt_clr_refresh", "rt_clr_user"}
InExchange(c) == calls[c].pc \in ExchangePcs
Settled(c) == calls[c].pc = "done"
\* the call that set isRefreshing and has not reset it yet (0: none)
Leading(c) == calls[c].role = "leader" /\ calls[c].pc # "done"
Leader == IF \E c \in Calls : Leading(c) THEN CHOOSE c \in Calls : Leading(c) ELSE 0

EmptyStore == [auth |-> 0, refresh |-> 0, user |-> 0]
Pair(n) == [auth |-> n, refresh |-> n, user |-> n]
NoRt == [tok |-> 0, new |-> 0, out |-> "none"]

Init ==
  /\ isRefreshing = FALSE
  /\ failedQueue = <<>>
  /\ retryMap = {}
  /\ store \in {EmptyStore, Pair(1)}
  /\ defaultAuth = NoHeader
  /\ calls = [c \in Calls |-> NewCall]
  /\ now = 0
  /\ rt = NoRt
  /\ login = [pc |-> "idle", new |-> 0, n |-> 0]
  /\ logout = [pc |-> "idle", n |-> 0]
  /\ issued = 1
  /\ exchanges = <<>>
  /\ hist = [late |-> FALSE, cleanFail |-> FALSE, rtDirty |-> FALSE]

\* some first attempt has been answered
AnyResponse == \E c \in Calls : Len(calls[c].outs) >= 1

\* --------------------------------------------------------------- request()
\* client.ts:158-200, up to the first await.  A call to the refresh endpoint
\* skips getAuthHeaders and issues its fetch in the same turn.  t is the value
\* of Date.now(): the instant of the previous call, or a later one.
Request(c, url, own, t) ==
  /\ calls[c].pc = "new"
  /\ IF c = 1 THEN TRUE ELSE calls[c - 1].pc # "new"
  /\ t \in {now, now + 1}
  /\ now' = t
  /\ LET id == RequestId(url, t)
         r0 == [calls[c] EXCEPT !.url = url, !.requestId = id,
                                !.hasRetried = (id \in retryMap),
                                !.ownAuth = own, !.clean = hist.cleanFail]
     IN calls' = [calls EXCEPT ![c] =
          IF IsRefreshEndpoint(url)
          THEN [r0 EXCEPT !.pc = "fetch",
                          !.sent = <<RequestHeaders(defaultAuth, 0, own)>>]
          ELSE [r0 EXCEPT !.pc = "auth"]]
  /\ hist' = [hist EXCEPT !.late = @ \/ (IsRefreshEndpoint(url) /\ AnyResponse)]
  /\ UNCHANGED <<isRefreshing, failedQueue, retryMap, store, defaultAuth,
                 rt, login, logout, issued, exchanges>>

\* getAuthHeaders resolves (client.ts:94-102, 178-200): the first attempt is issued.
GetAuthHeaders(c) ==
  /\ calls[c].pc = "auth"
  /\ calls' = [calls EXCEPT ![c] =
        [@ EXCEPT !.pc = "fetch",
                  !.sent = <<RequestHeaders(defaultAuth, store.auth, calls[c].ownAuth)>>,
                  !.clean = @ /\ hist.cleanFail]]
  /\ hist' = [hist EXCEPT !.late = @ \/ AnyResponse]
  /\ UNCHANGED <<isRefreshing, failedQueue, retryMap, store, defaultAuth, now,
                 rt, login, logout, issued, exchanges>>

\* client.ts:205
TakesRefreshPath(c, out) ==
  /\ IsResponse(out) /\ StatusOf(out) = 401
  /\ ~calls[c].hasRetried
  /\ ~IsRefreshEndpoint(calls[c].url)

\* a client that never checks the flag
MustQueue_Never == FALSE

\* client.ts:209
MustQueue == isRefreshing

\* The first attempt settles without the refresh path (client.ts:332-366).
FirstAttemptResult(out) ==
  IF ~IsResponse(out) THEN Failure(OuterCatch(Thrown(out)))
  ELSE IF Ok(out) THEN Success
  ELSE Failure(OuterCatch(handleError(Body, StatusOf(out))))

\* a client that drops the stored credentials on every settled first attempt
FetchSettle_Logout(c, out) ==
  /\ calls[c].pc = "fetch"
  /\ ~TakesRefreshPath(c, out)
  /\ calls' = [calls EXCEPT ![c] =
        [@ EXCEPT !.pc = "done", !.outs = <<out>>,
                  !.aborts = IF out = "abort" THEN @ + 1 ELSE @,
                  !.res = FirstAttemptResult(out)]]
  /\ retryMap' = retryMap \ {calls[c].requestId}
  /\ store' = EmptyStore
  /\ defaultAuth' = NoHeader
  /\ UNCHANGED <<isRefreshing, failedQueue, now, rt, login, logout, issued,
                 exchanges, hist>>

FetchSettle(c, out) ==
  /\ calls[c].pc = "fetch"
  /\ ~TakesRefreshPath(c, out)
  /\ calls' = [calls EXCEPT ![c] =
        [@ EXCEPT !.pc = "done", !.outs = <<out>>,
                  !.aborts = IF out = "abort" THEN @ + 1 ELSE @,
                  !.res = FirstAttemptResult(out)]]
  /\ retryMap' = retryMap \ {calls[c].requestId}
  /\ UNCHANGED <<isRefreshing, failedQueue, store, defaultAuth, now,
                 rt, login, logout, issued, exchanges, hist>>

\* 401 while a refresh is running: the call becomes a waiter (client.ts:206-264).
Enqueue(c) ==
  /\ calls[c].pc = "fetch"
  /\ TakesRefreshPath(c, "s401")
  /\ MustQueue
  /\ retryMap' = retryMap \cup {calls[c].requestId}
  /\ failedQueue' = Append(failedQueue, c)
  /\ calls' = [calls EXCEPT ![c] =
        [@ EXCEPT !.pc = "queued", !.outs = <<"s401">>, !.role = "waiter",
                  !.joins = @ + 1, !.cycle = Leader,
                  !.pos = Len(failedQueue) + 1,
                  !.inExch = (Leader # 0 /\ InExchange(Leader))]]
  /\ UNCHANGED <<isRefreshing, store, defaultAuth, now, rt, login, logout,
                 issued, exchanges, hist>>

\* 401 while idle: the call leads a refresh and calls refreshToken() (client.ts:266-270).
StartRefresh(c) ==
  /\ calls[c].pc = "fetch"
  /\ TakesRefreshPath(c, "s401")
  /\ ~MustQueue
  /\ retryMap' = retryMap \cup {calls[c].requestId}
  /\ isRefreshing' = TRUE
  /\ rt' = NoRt
  /\ calls' = [calls EXCEPT ![c] =
        [@ EXCEPT !.pc = "rt_read", !.outs = <<"s401">>, !.role = "leader",
                  !.joins = @ + 1, !.cycle = c]]
  /\ hist' = [hist EXCEPT !.rtDirty = FALSE]
  /\ UNCHANGED <<failedQueue, store, defaultAuth, now, login, logout,
                 issued, exchanges>>

\* ------------------------------------------------------- the waiter queue
\* `null` as processQueue's error argument
Null == [isError |-> FALSE, name |-> "null", message |-> "", status |-> NoStatus]

\* the waiter's reject closure (client.ts:258-261)
WaiterReject(r, err, d) ==
  [r EXCEPT !.pc = "done", !.drain = d, !.given = 0,
            !.res = Failure(handleError(err, NoStatus))]

\* the waiter's resolve closure up to its first await (client.ts:212-233)
WaiterResolve(r, token, d) ==
  IF token = 0
  THEN [r EXCEPT !.pc = "done", !.drain = d, !.given = 0,
                 !.res = Failure(handleError(ErrorObj("Error", "Token refresh failed"),
                                             NoStatus))]
  ELSE [r EXCEPT !.pc = "wreplay", !.drain = d, !.given = token,
                 !.sent = Append(@, RetryHeaders(token, r.ownAuth))]

\* a processQueue that resolves the first waiter and rejects the others
ProcessQueue_HeadOnly(cs, q, error, token, d) ==
  [c \in Calls |->
     IF c \in Range(q)
     THEN IF error # Null \/ c # Head(q)
          THEN WaiterReject(cs[c], ErrorObj("Error", "Token refresh failed"), d)
          ELSE WaiterResolve(cs[c], token, d)
     ELSE cs[c]]

\* failedQueue.forEach (client.ts:19-25) from its k-th iteration on: each
\* iteration runs the closure of q[k] up to that closure's first await.
RECURSIVE ForEach(_, _, _, _, _, _)
ForEach(cs, q, k, error, token, d) ==
  IF k > Len(q) THEN cs
  ELSE LET r == [cs[q[k]] EXCEPT !.turn = k]
           done == IF error # Null THEN WaiterReject(r, error, d)
                   ELSE WaiterResolve(r, token, d)
       IN ForEach([cs EXCEPT ![q[k]] = done], q, k + 1, error, token, d)

\* a forEach that walks the queue from its last entry to its first
RECURSIVE ForEachBack(_, _, _, _, _, _)
ForEachBack(cs, q, k, error, token, d) ==
  IF k > Len(q) THEN cs
  ELSE LET w == q[Len(q) + 1 - k]
           r == [cs[w] EXCEPT !.turn = k]
           done == IF error # Null THEN WaiterReject(r, error, d)
                   ELSE WaiterResolve(r, token, d)
       IN ForEachBack([cs EXCEPT ![w] = done], q, k + 1, error, token, d)

ProcessQueue_Lifo(cs, q, error, token, d) == ForEachBack(cs, q, 1, error, token, d)

\* processQueue(error, token) (client.ts:18-27): the calls after every waiter of
\* q ran its closure, in queue order; the caller empties failedQueue.
ProcessQueue(cs, q, error, token, d) == ForEach(cs, q, 1, error, token, d)

\* the markers the closures of a drain delete
DrainDeletes(q, error, token) ==
  IF error # Null \/ token = 0 THEN {calls[w].requestId : w \in Range(q)} ELSE {}

\* ---------------------------------------------------------- refreshToken()
\* What the leader throws when refreshToken() returned null (client.ts:272-280),
\* after the catch of the refresh flow (323-328) and the outer catch (354-365).
AuthenticationFailed ==
  OuterCatch(handleError(PlainObj("Authentication failed. Please login again.", 401),
                         401))

\* refreshToken() returned null: the leader drains with an error and rejects
\* (client.ts:272-280, 323-328, 354-365).
LeaderNoToken(c, how) ==
  LET d == DrainAt(c, calls[c].pc)
      err == ErrorObj("Error", "Token refresh failed")
      cs == ProcessQueue(calls, failedQueue, err, 0, d)
  IN /\ calls' = [cs EXCEPT ![c] = [@ EXCEPT !.pc = "done", !.exch = how,
                                               !.res = Failure(AuthenticationFailed)]]
     /\ failedQueue' = <<>>
     /\ retryMap' = (retryMap \ DrainDeletes(failedQueue, err, 0)) \ {calls[c].requestId}
     /\ isRefreshing' = FALSE

\* getItem(REFRESH_TOKEN) resolved with nothing: return null (client.ts:110-113).
RefreshNoToken(c) ==
  /\ calls[c].pc = "rt_read"
  /\ store.refresh = 0
  /\ LeaderNoToken(c, "notoken")
  /\ rt' = NoRt
  /\ UNCHANGED <<store, defaultAuth, now, login, logout, issued, exchanges, hist>>

\* getItem(REFRESH_TOKEN) resolved with a token: POST /auth/refresh-tokens
\* (client.ts:110-123).  The fetch has no abort signal.
RefreshPost(c) ==
  /\ calls[c].pc = "rt_read"
  /\ store.refresh # 0
  /\ rt' = [tok |-> store.refresh, new |-> 0, out |-> "none"]
  /\ exchanges' = Append(exchanges, store.refresh)
  /\ calls' = [calls EXCEPT ![c] = [@ EXCEPT !.pc = "rt_fetch"]]
  /\ UNCHANGED <<isRefreshing, failedQueue, retryMap, store, defaultAuth, now,
                 login, logout, issued, hist>>

\* The refresh endpoint answers 2xx with a new pair (client.ts:125-132).
RefreshOk(c) ==
  /\ calls[c].pc = "rt_fetch"
  /\ issued < MaxTokens
  /\ issued' = issued + 1
  /\ rt' = [rt EXCEPT !.new = issued + 1, !.out = "ok"]
  /\ calls' = [calls EXCEPT ![c] = [@ EXCEPT !.pc = "rt_set_auth"]]
  /\ UNCHANGED <<isRefreshing, failedQueue, retryMap, store, defaultAuth, now,
                 login, logout, exchanges, hist>>

\* The refresh endpoint answers non-2xx, or the fetch fails: the catch starts
\* clearing (client.ts:125-127, 140-144).
RefreshFailed(c, out) ==
  /\ calls[c].pc = "rt_fetch"
  /\ out \in {"s400", "neterr"}
  /\ rt' = [rt EXCEPT !.out = out]
  /\ calls' = [calls EXCEPT ![c] = [@ EXCEPT !.pc = "rt_clr_auth"]]
  /\ UNCHANGED <<isRefreshing, failedQueue, retryMap, store, defaultAuth, now,
                 login, logout, issued, exchanges, hist>>

\* a refreshToken() that does not store the rotated refresh token
RefreshSave_KeepRefresh(c) ==
  /\ \/ /\ calls[c].pc = "rt_set_auth"
        /\ store' = [store EXCEPT !.auth = rt.new]
        /\ calls' = [calls EXCEPT ![c] = [@ EXCEPT !.pc = "rt_set_refresh"]]
     \/ /\ calls[c].pc = "rt_set_refresh"
        /\ store' = store
        /\ calls' = [calls EXCEPT ![c] = [@ EXCEPT !.pc = "rt_set_user"]]
  /\ UNCHANGED <<isRefreshing, failedQueue, retryMap, defaultAuth, now, rt,
                 login, logout, issued, exchanges, hist>>

\* setItem(AUTH_TOKEN), setItem(REFRESH_TOKEN) resolve (client.ts:132-133).
RefreshSave(c) ==
  /\ \/ /\ calls[c].pc = "rt_set_auth"
        /\ store' = [store EXCEPT !.auth = rt.new]
        /\ calls' = [calls EXCEPT ![c] = [@ EXCEPT !.pc = "rt_set_refresh"]]
     \/ /\ calls[c].pc = "rt_set_refresh"
        /\ store' = [store EXCEPT !.refresh = rt.new]
        /\ calls' = [calls EXCEPT ![c] = [@ EXCEPT !.pc = "rt_set_user"]]
  /\ UNCHANGED <<isRefreshing, failedQueue, retryMap, defaultAuth, now, rt,
                 login, logout, issued, exchanges, hist>>

\* setItem(USER_DATA) resolves; refreshToken() sets the header and returns the
\* token; the leader drains the queue and issues its replay (client.ts:134-139,
\* 283-300).
RefreshDone(c) ==
  /\ calls[c].pc = "rt_set_user"
  /\ store' = [store EXCEPT !.user = rt.new]
  /\ defaultAuth' = Bearer(rt.new)
  /\ LET d == DrainAt(c, calls[c].pc)
         cs == ProcessQueue(calls, failedQueue, Null, rt.new, d)
     IN calls' = [cs EXCEPT ![c] =
           [@ EXCEPT !.pc = "replay", !.exch = "ok", !.given = rt.new,
                     !.sent = Append(@, RetryHeaders(rt.new, calls[c].ownAuth))]]
  /\ failedQueue' = <<>>
  /\ retryMap' = retryMap \ DrainDeletes(failedQueue, Null, rt.new)
  /\ rt' = NoRt
  /\ hist' = [hist EXCEPT !.cleanFail = FALSE]
  /\ UNCHANGED <<isRefreshing, now, login, logout, issued, exchanges>>

\* a catch that forgets the access token
RefreshClear_KeepAuth(c) ==
  /\ \/ /\ calls[c].pc = "rt_clr_auth"
        /\ store' = store
        /\ calls' = [calls EXCEPT ![c] = [@ EXCEPT !.pc = "rt_clr_refresh"]]
     \/ /\ calls[c].pc = "rt_clr_refresh"
        /\ store' = [store EXCEPT !.refresh = 0]
        /\ calls' = [calls EXCEPT ![c] = [@ EXCEPT !.pc = "rt_clr_user"]]
  /\ UNCHANGED <<isRefreshing, failedQueue, retryMap, defaultAuth, now, rt,
                 login, logout, issued, exchanges, hist>>

\* removeItem(AUTH_TOKEN), removeItem(REFRESH_TOKEN) resolve (client.ts:144-145).
RefreshClear(c) ==
  /\ \/ /\ calls[c].pc = "rt_clr_auth"
        /\ store' = [store EXCEPT !.auth = 0]
        /\ calls' = [calls EXCEPT ![c] = [@ EXCEPT !.pc = "rt_clr_refresh"]]
     \/ /\ calls[c].pc = "rt_clr_refresh"
        /\ store' = [store EXCEPT !.refresh = 0]
        /\ calls' = [calls EXCEPT ![c] = [@ EXCEPT !.pc = "rt_clr_user"]]
  /\ UNCHANGED <<isRefreshing, failedQueue, retryMap, defaultAuth, now, rt,
                 login, logout, issued, exchanges, hist>>

\* removeItem(USER_DATA) resolves; the header is removed, refreshToken() returns
\* null and the leader rejects (client.ts:146-151, 272-280).
RefreshCleared(c) ==
  /\ calls[c].pc = "rt_clr_user"
  /\ store' = [store EXCEPT !.user = 0]
  /\ defaultAuth' = NoHeader
  /\ LeaderNoToken(c, rt.out)
  /\ rt' = NoRt
  /\ hist' = [hist EXCEPT !.cleanFail = ~hist.rtDirty]
  /\ UNCHANGED <<now, login, logout, issued, exchanges>>

\* ------------------------------------------------------------------ replays
\* what a replay's inner try throws: a failed fetch, or handleError(retryData,
\* retryResponse.status) for a non-2xx response (client.ts:238-240, 305-307)
ReplayThrown(out) ==
  IF IsResponse(out) THEN handleError(Body, StatusOf(out)) ELSE Thrown(out)

\* the error of the leader's replay after its catch (client.ts:317-321)
LeaderReplayError(out) == handleError(ReplayThrown(out), NoStatus)

\* The leader's replay succeeds (client.ts:302-316).
LeaderReplayOk(c, out) ==
  /\ calls[c].pc = "replay"
  /\ Ok(out)
  /\ calls' = [calls EXCEPT ![c] =
        [@ EXCEPT !.pc = "done", !.outs = Append(@, out), !.res = Success]]
  /\ retryMap' = retryMap \ {calls[c].requestId}
  /\ isRefreshing' = FALSE
  /\ UNCHANGED <<failedQueue, store, defaultAuth, now, rt, login, logout, issued,
                 exchanges, hist>>

\* a replay whose 401 goes through the refresh path again
LeaderReplayFail_Loop(c, out) ==
  /\ calls[c].pc = "replay"
  /\ ~Ok(out)
  /\ calls' = [calls EXCEPT ![c] =
        [@ EXCEPT !.pc = IF out = "s401" THEN "rt_read" ELSE "done",
                  !.outs = Append(@, out),
                  !.joins = IF out = "s401" THEN @ + 1 ELSE @]]
  /\ isRefreshing' = (out = "s401")
  /\ UNCHANGED <<failedQueue, retryMap, store, defaultAuth, now, rt, login,
                 logout, issued, exchanges, hist>>

\* The leader's replay fails: the catch of the replay, then the catch of the
\* refresh flow, which drains the queue with the error, then the outer catch
\* (client.ts:317-328, 354-365).
LeaderReplayFail(c, out) ==
  /\ calls[c].pc = "replay"
  /\ ~Ok(out)
  /\ LET d == DrainAt(c, calls[c].pc)
         err == LeaderReplayError(out)
         cs == ProcessQueue(calls, failedQueue, err, 0, d)
     IN /\ calls' = [cs EXCEPT ![c] =
              [@ EXCEPT !.pc = "done", !.outs = Append(@, out),
                        !.aborts = IF out = "abort" THEN @ + 1 ELSE @,
                        !.res = Failure(OuterCatch(handleError(err, 401)))]]
        /\ retryMap' = (retryMap \ DrainDeletes(failedQueue, err, 0))
                          \ {calls[c].requestId}
  /\ failedQueue' = <<>>
  /\ isRefreshing' = FALSE
  /\ UNCHANGED <<store, defaultAuth, now, rt, login, logout, issued, exchanges, hist>>

\* a waiter replay that leaves its marker behind
WaiterReplay_KeepMarker(c, out) ==
  /\ calls[c].pc = "wreplay"
  /\ calls' = [calls EXCEPT ![c] =
        [@ EXCEPT !.pc = "done", !.outs = Append(@, out),
                  !.aborts = IF out = "abort" THEN @ + 1 ELSE @,
                  !.res = IF Ok(out) THEN Success
                          ELSE Failure(handleError(ReplayThrown(out), NoStatus))]]
  /\ UNCHANGED <<isRefreshing, failedQueue, retryMap, store, defaultAuth, now, rt,
                 login, logout, issued, exchanges, hist>>

\* A waiter's replay settles (client.ts:229-252).
WaiterReplay(c, out) ==
  /\ calls[c].pc = "wreplay"
  /\ calls' = [calls EXCEPT ![c] =
        [@ EXCEPT !.pc = "done", !.outs = Append(@, out),
                  !.aborts = IF out = "abort" THEN @ + 1 ELSE @,
                  !.res = IF Ok(out) THEN Success
                          ELSE Failure(handleError(ReplayThrown(out), NoStatus))]]
  /\ retryMap' = retryMap \ {calls[c].requestId}
  /\ UNCHANGED <<isRefreshing, failedQueue, store, defaultAuth, now, rt, login,
                 logout, issued, exchanges, hist>>

\* -------------------------------------------------------------- credentials
\* setAuthData(authResponse) is called with a pair the server issued
\* (client.ts:448-453).
SetAuthData ==
  /\ login.pc = "idle"
  /\ login.n + logout.n < MaxCredOps
  /\ issued < MaxTokens
  /\ issued' = issued + 1
  /\ login' = [pc |-> "set_auth", new |-> issued + 1, n |-> login.n + 1]
  /\ UNCHANGED <<isRefreshing, failedQueue, retryMap, store, defaultAuth, calls,
                 now, rt, logout, exchanges, hist>>

\* its three setItem calls resolve in turn; the last turn sets the header
\* (client.ts:453-458).
SetAuthDataStep ==
  /\ \/ /\ login.pc = "set_auth"
        /\ store' = [store EXCEPT !.auth = login.new]
        /\ login' = [login EXCEPT !.pc = "set_refresh"]
        /\ UNCHANGED defaultAuth
     \/ /\ login.pc = "set_refresh"
        /\ store' = [store EXCEPT !.refresh = login.new]
        /\ login' = [login EXCEPT !.pc = "set_user"]
        /\ UNCHANGED defaultAuth
     \/ /\ login.pc = "set_user"
        /\ store' = [store EXCEPT !.user = login.new]
        /\ defaultAuth' = Bearer(login.new)
        /\ login' = [login EXCEPT !.pc = "idle", !.new = 0]
  /\ hist' = [hist EXCEPT !.cleanFail = FALSE, !.rtDirty = TRUE]
  /\ UNCHANGED <<isRefreshing, failedQueue, retryMap, calls, now, rt, logout,
                 issued, exchanges>>

\* clearAuthData() is called (client.ts:465-467).
ClearAuthData ==
  /\ logout.pc = "idle"
  /\ login.n + logout.n < MaxCredOps
  /\ logout' = [pc |-> "clr_auth", n |-> logout.n + 1]
  /\ UNCHANGED <<isRefreshing, failedQueue, retryMap, store, defaultAuth, calls,
                 now, rt, login, issued, exchanges, hist>>

\* its three removeItem calls resolve in turn; the last turn removes the
\* header (client.ts:467-472).
ClearAuthDataStep ==
  /\ \/ /\ logout.pc = "clr_auth"
        /\ store' = [store EXCEPT !.auth = 0]
        /\ logout' = [logout EXCEPT !.pc = "clr_refresh"]
        /\ UNCHANGED defaultAuth
     \/ /\ logout.pc = "clr_refresh"
        /\ store' = [store EXCEPT !.refresh = 0]
        /\ logout' = [logout EXCEPT !.pc = "clr_user"]
        /\ UNCHANGED defaultAuth
     \/ /\ logout.pc = "clr_user"
        /\ store' = [store EXCEPT !.user = 0]
        /\ defaultAuth' = NoHeader
        /\ logout' = [logout EXCEPT !.pc = "idle"]
  /\ UNCHANGED <<isRefreshing, failedQueue, retryMap, calls, now, rt, login,
                 issued, exchanges, hist>>

\* ------------------------------------------------------------ specification
Next ==
  \/ \E c \in 1..MaxCredCalls, url \in Urls, own \in BOOLEAN, t \in {now, now + 1} :
        Request(c, url, own, t)
  \/ \E c \in Calls : GetAuthHeaders(c)
  \/ \E c \in Calls, out \in Outcomes : FetchSettle(c, out)
  \/ \E c \in Calls : Enqueue(c)
  \/ \E c \in Calls : StartRefresh(c)
  \/ \E c \in Calls : RefreshNoToken(c)
  \/ \E c \in Calls : RefreshPost(c)
  \/ \E c \in Calls : RefreshOk(c)
  \/ \E c \in Calls, out \in {"s400", "neterr"} : RefreshFailed(c, out)
  \/ \E c \in Calls : RefreshSave(c)
  \/ \E c \in Calls : RefreshDone(c)
  \/ \E c \in Calls : RefreshClear(c)
  \/ \E c \in Calls : RefreshCleared(c)
  \/ \E c \in Calls, out \in Outcomes : LeaderReplayOk(c, out)
  \/ \E c \in Calls, out \in Outcomes : LeaderReplayFail(c, out)
  \/ \E c \in Calls, out \in Outcomes : WaiterReplay(c, out)
  \/ SetAuthData
  \/ SetAuthDataStep
  \/ ClearAuthData
  \/ ClearAuthDataStep

Spec == Init /\ [][Next]_vars

\* Runs without credential operations: every call goes to the API, each at a
\* clock instant of its own.
NextCore ==
  \/ \E c \in Calls, own \in BOOLEAN : Request(c, "/a", own, now + 1)
  \/ \E c \in Calls : GetAuthHeaders(c)
  \/ \E c \in Calls, out \in Outcomes : FetchSettle(c, out)
  \/ \E c \in Calls : Enqueue(c)
  \/ \E c \in Calls : StartRefresh(c)
  \/ \E c \in Calls : RefreshNoToken(c)
  \/ \E c \in Calls : RefreshPost(c)
  \/ \E c \in Calls : RefreshOk(c)
  \/ \E c \in Calls, out \in {"s400", "neterr"} : RefreshFailed(c, out)
  \/ \E c \in Calls : RefreshSave(c)
  \/ \E c \in Calls : RefreshDone(c)
  \/ \E c \in Calls : RefreshClear(c)
  \/ \E c \in Calls : RefreshCleared(c)
  \/ \E c \in Calls, out \in Outcomes : LeaderReplayOk(c, out)
  \/ \E c \in Calls, out \in Outcomes : LeaderReplayFail(c, out)
  \/ \E c \in Calls, out \in Outcomes : WaiterReplay(c, out)

SpecCore == Init /\ [][NextCore]_vars

\* Runs under the scheduling the runtime guarantees.  A storage promise that
\* is pending resolves, and a transport call that carries an abort signal
\* settles (with a response, a failure, or the abort of its timer).  The fetch
\* of refreshToken() carries no signal (client.ts:117-123): nothing obliges
\* RefreshOk or RefreshFailed to happen.
StorageStep ==
  \/ \E c \in Calls : GetAuthHeaders(c)
  \/ \E c \in Calls : RefreshNoToken(c)
  \/ \E c \in Calls : RefreshPost(c)
  \/ \E c \in Calls : RefreshSave(c)
  \/ \E c \in Calls : RefreshDone(c)
  \/ \E c \in Calls : RefreshClear(c)
  \/ \E c \in Calls : RefreshCleared(c)

TimedStep ==
  \/ \E c \in Calls, out \in Outcomes : FetchSettle(c, out)
  \/ \E c \in Calls : Enqueue(c)
  \/ \E c \in Calls : StartRefresh(c)
  \/ \E c \in Calls, out \in Outcomes : LeaderReplayOk(c, out)
  \/ \E c \in Calls, out \in Outcomes : LeaderReplayFail(c, out)
  \/ \E c \in Calls, out \in Outcomes : WaiterReplay(c, out)

NextLive ==
  \/ \E c \in 1..MaxCredCalls : Request(c, "/a", FALSE, now + 1)
  \/ StorageStep
  \/ TimedStep
  \/ \E c \in Calls : RefreshOk(c)
  \/ \E c \in Calls, out \in {"s400", "neterr"} : RefreshFailed(c, out)

SpecLive ==
  Init /\ [][NextLive]_vars /\ WF_vars(StorageStep) /\ WF_vars(TimedStep)

\* ==================================================================== claims
Released(w) == calls[w].role = "waiter" /\ calls[w].drain # NoDrain
LastOut(c) == calls[c].outs[Len(calls[c].outs)]

\* C1: at most one refresh exchange (a refreshToken() call) is in flight, and it
\* belongs to the call that set isRefreshing; a call that saw isRefreshing on
\* its 401 is a waiter: it sits in failedQueue until a drain releases it and
\* never runs an exchange of its own.
C1_SingleFlight ==
  /\ Cardinality({c \in Calls : InExchange(c)}) <= 1
  /\ \A c \in Calls : InExchange(c) => isRefreshing /\ calls[c].role = "leader"
  /\ \A c \in Calls : calls[c].role = "waiter" =>
        /\ calls[c].exch = "none" /\ calls[c].joins = 1
        /\ calls[c].pc \in {"queued", "wreplay", "done"}
        /\ (calls[c].pc = "queued") = (c \in Range(failedQueue))

C1_Witness ==
  \E l, w1, w2 \in Calls :
     /\ w1 # w2
     /\ calls[l].pc = "rt_fetch"
     /\ failedQueue = <<w1, w2>>

\* C2: when every first attempt was issued before any response arrived, all
\* with the same stored access token, and every response so far is a 401, at
\* most one refresh exchange has been sent, and exactly one once all the calls
\* have settled.
Issued == {c \in Calls : Len(calls[c].sent) >= 1}
ConcurrentBatch ==
  /\ ~hist.late
  /\ login.n + logout.n = 0
  /\ \A c \in Issued : calls[c].sent[1] = Bearer(1)
  /\ \A c \in Issued : Len(calls[c].outs) >= 1 => calls[c].outs[1] = "s401"

C2_ExactlyOneExchange ==
  ConcurrentBatch =>
     /\ Len(exchanges) <= 1
     /\ (Issued # {} /\ \A c \in Issued : Settled(c)) => Len(exchanges) = 1

\* C3 (as stated): a waiter enqueued during the exchange is released only once
\* that exchange has settled; the waiters of one drain are all handed the
\* same thing; handed the new token, each replays with Authorization: Bearer
\* <that token>; handed an error, each is rejected.
ReleasedAfterSettle ==
  \A w \in Calls : Released(w) /\ calls[w].inExch => ~InExchange(calls[w].cycle)

SameOutcome ==
  \A w1, w2 \in Calls :
     Released(w1) /\ Released(w2) /\ calls[w1].drain = calls[w2].drain =>
        /\ calls[w1].given = calls[w2].given
        /\ (calls[w1].given = 0) = (calls[calls[w1].drain[1]].exch # "ok"
                                     \/ calls[w1].drain[2] = "replay")

RejectedOnFailure ==
  \A w \in Calls : Released(w) /\ calls[w].given = 0 =>
     Settled(w) /\ ~calls[w].res.ok /\ Len(calls[w].sent) = 1

C3_ReplayWithNewToken ==
  /\ ReleasedAfterSettle /\ SameOutcome /\ RejectedOnFailure
  /\ \A w \in Calls : Released(w) /\ calls[w].given # 0 =>
        /\ calls[w].given = calls[calls[w].drain[1]].given
        /\ Len(calls[w].sent) = 2
        /\ calls[w].sent[2] = Bearer(calls[w].given)

\* C3 (amended): the same, except that a call whose own headers carry an
\* Authorization entry replays with that entry.
C3_ReplayWithNewTokenUnlessOwn ==
  /\ ReleasedAfterSettle /\ SameOutcome /\ RejectedOnFailure
  /\ \A w \in Calls : Released(w) /\ calls[w].given # 0 =>
        /\ calls[w].given = calls[calls[w].drain[1]].given
        /\ Len(calls[w].sent) = 2
        /\ calls[w].sent[2] = IF calls[w].ownAuth THEN CallerHeader
                              ELSE Bearer(calls[w].given)

C3_Witness ==
  \E w1, w2 \in Calls :
     /\ w1 # w2
     /\ Released(w1) /\ Released(w2) /\ calls[w1].drain = calls[w2].drain
     /\ calls[w1].inExch /\ calls[w2].inExch
     /\ calls[w1].given # 0
     /\ ~calls[w1].ownAuth /\ calls[w2].ownAuth

\* C4: a waiter still in the queue belongs to the refresh cycle that is
\* running: its leader has not gone back to idle.
C4_NoWaiterOutlivesCycle ==
  \A w \in Calls : calls[w].pc = "queued" => Leading(calls[w].cycle)

\* C5: a call makes at most two transport attempts and takes the refresh path
\* at most once; a replay answered 401 settles the call as a failure.
C5_NoLoop ==
  \A c \in Calls :
     /\ Len(calls[c].sent) <= 2
     /\ calls[c].joins <= 1
     /\ (Len(calls[c].outs) = 2 /\ calls[c].outs[2] = "s401") =>
           Settled(c) /\ ~calls[c].res.ok /\ calls[c].joins = 1

C5_Witness ==
  \E l, w \in Calls :
     /\ calls[l].role = "leader" /\ calls[w].role = "waiter"
     /\ Len(calls[l].outs) = 2 /\ calls[l].outs[2] = "s401"
     /\ Len(calls[w].outs) = 2 /\ calls[w].outs[2] = "s401"

\* C6: a call whose last attempt was cancelled by its timer had its transport
\* call aborted and fails with status 408.
C6_Timeout408 ==
  \A c \in Calls :
     Settled(c) /\ Len(calls[c].outs) >= 1 /\ LastOut(c) = "abort" =>
        calls[c].aborts >= 1 /\ ~calls[c].res.ok /\ calls[c].res.status = 408

\* C7: a call whose final attempt was answered with a non-2xx status fails
\* with that status.
DecidedByLastAttempt(c) ==
  Settled(c) /\ Len(calls[c].outs) = Len(calls[c].sent) /\ Len(calls[c].outs) >= 1

C7_StatusPreserved ==
  \A c \in Calls :
     DecidedByLastAttempt(c) /\ IsResponse(LastOut(c)) /\ ~Ok(LastOut(c)) =>
        ~calls[c].res.ok /\ calls[c].res.status = StatusOf(LastOut(c))

\* C8: when the refresh endpoint answered non-2xx with waiters queued, the
\* leader and every waiter of that drain fail with status 401, and the three
\* slots are empty.
C8_RefreshFailureRejects401 ==
  \A l \in Calls :
     LET d == DrainAt(l, "rt_clr_user")
         ws == {w \in Calls : Released(w) /\ calls[w].drain = d}
     IN (Settled(l) /\ calls[l].exch = "s400" /\ ws # {}) =>
           /\ store = EmptyStore
           /\ \A c \in ws \cup {l} : ~calls[c].res.ok /\ calls[c].res.status = 401

C10_NoTokenClears ==
  [][\A c \in Calls :
        (calls[c].pc = "rt_read" /\ calls'[c].pc = "done"
           /\ login.pc = "idle" /\ logout.pc = "idle" /\ ~hist.rtDirty)
        => (store' = EmptyStore /\ defaultAuth' = NoHeader)]_vars

\* C11: the timeout of one call's attempt settles no other call: a waiter that a
\* drain rejected was not rejected by the drain that follows the abort of its
\* leader's replay.
C11_TimeoutIsolated ==
  \A w \in Calls :
     Released(w) /\ calls[w].drain[2] = "replay" =>
        LastOut(calls[w].drain[1]) # "abort"

\* C13: while isRefreshing is false the waiter queue is empty.
C13_IdleQueueEmpty ==
  ~isRefreshing => failedQueue = <<>>

\* C15: a waiter is rejected by a drain only when the exchange of the drain's
\* leader failed; after a successful exchange a waiter fails only through its
\* own replay.
C15_RejectedOnlyByFailedExchange ==
  \A w \in Calls :
     Released(w) /\ calls[w].given = 0 => calls[calls[w].drain[1]].exch # "ok"

\* C12: the marker of a settled call is not in retryMap (unless a call with the
\* same request id is still pending), and retryMap is empty whenever every
\* call that was started has settled.
Pending(c) == calls[c].pc \notin {"new", "done"}

C12_MarkersRemoved ==
  /\ \A c \in Calls :
        (Settled(c) /\ \A d \in Calls : Pending(d) =>
                          calls[d].requestId # calls[c].requestId)
        => calls[c].requestId \notin retryMap
  /\ (\A c \in Calls : ~Pending(c)) => retryMap = {}

C12_Witness ==
  \E l, w \in Calls :
     /\ \A c \in Calls : ~Pending(c)
     /\ calls[l].role = "leader" /\ Settled(l) /\ ~calls[l].res.ok
     /\ calls[w].role = "waiter" /\ Settled(w) /\ Len(calls[w].outs) = 2

\* C14: a refresh exchange that is in flight ends: isRefreshing is eventually
\* false again and the leader has settled.
C14_RefreshBounded ==
  (\E c \in Calls : calls[c].pc = "rt_fetch")
     ~> (~isRefreshing /\ \A c \in Calls : calls[c].role = "leader" => Settled(c))

\* C16: the waiters of one drain run their closures, and so issue their
\* replays, in the order of their pushes; a waiter that has issued a replay was
\* released by a drain that followed a completed exchange; a waiter is in
\* failedQueue exactly from its push to its drain.
C16_Fifo ==
  /\ \A w1, w2 \in Calls :
        (Released(w1) /\ Released(w2) /\ calls[w1].drain = calls[w2].drain
           /\ calls[w1].pos < calls[w2].pos) => calls[w1].turn < calls[w2].turn
  /\ \A w \in Calls : calls[w].role = "waiter" /\ Len(calls[w].sent) = 2 =>
        /\ Released(w) /\ calls[w].given # 0
        /\ calls[calls[w].drain[1]].exch = "ok"
        /\ ~InExchange(calls[w].drain[1])
  /\ \A w \in Calls : calls[w].role = "waiter" =>
        (Released(w) = (w \notin Range(failedQueue)))
  /\ \A i \in 1..Len(failedQueue) : calls[failedQueue[i]].pos = i

C16_Witness ==
  \E w1, w2 \in Calls :
     /\ w1 > w2
     /\ Released(w1) /\ Released(w2) /\ calls[w1].drain = calls[w2].drain
     /\ calls[w1].pos = 1 /\ calls[w2].pos = 2
     /\ Len(calls[w1].sent) = 2 /\ Len(calls[w2].sent) = 2

\* C17: a call starts or joins a refresh at most once and every exchange belongs
\* to a leader of its own, so a failed exchange is not sent again; a call to
\* the refresh endpoint's url makes one attempt, never leads or waits, and a
\* 401 answer settles it as a failure.
C17_NoRefreshOfRefresh ==
  /\ \A c \in Calls : calls[c].joins <= 1
  /\ Len(exchanges) <= Cardinality({c \in Calls : calls[c].role = "leader"})
  /\ \A c \in Calls : InExchange(c) => ~IsRefreshEndpoint(calls[c].url)
  /\ \A c \in Calls :
        calls[c].url = "/auth/refresh-tokens" =>
           /\ calls[c].role = "none" /\ calls[c].joins = 0
           /\ Len(calls[c].sent) <= 1
           /\ calls[c].pc \in {"new", "fetch", "done"}
           /\ c \notin Range(failedQueue)
           /\ (Settled(c) /\ calls[c].outs = <<"s401">>) => ~calls[c].res.ok

C17_Witness ==
  \E l, c \in Calls :
     /\ calls[c].url = "/auth/refresh-tokens"
     /\ Settled(c) /\ calls[c].outs = <<"s401">>
     /\ calls[l].role = "leader" /\ calls[l].exch \in {"s400", "neterr"}
     /\ Len(exchanges) = 1

\* C18: every call to the API whose first attempt was answered 401 took the
\* refresh path (it led or joined a refresh), whatever other calls with the
\* same method and url did.
C18_RetryPerCall ==
  \A c \in Calls :
     (~IsRefreshEndpoint(calls[c].url) /\ Len(calls[c].outs) >= 1
        /\ calls[c].outs[1] = "s401") => calls[c].joins = 1

\* C19: the step that settles a call whose first attempt timed out, failed at
\* transport level or was answered with a non-2xx status other than 401 ends
\* the call as a failure after that one attempt and changes none of
\* isRefreshing, failedQueue, the stored credentials and the default header.
C19_OnlyRefreshRecovers ==
  [][\A c \in Calls :
        (calls[c].pc = "fetch" /\ calls'[c].pc = "done"
           /\ calls'[c].outs[1] \notin {"s200", "s401"})
        => /\ Len(calls'[c].sent) = 1 /\ Len(calls'[c].outs) = 1
           /\ ~calls'[c].res.ok /\ calls'[c].joins = 0
           /\ UNCHANGED <<isRefreshing, failedQueue, store, defaultAuth>>]_vars

C19_Witness ==
  \E c \in Calls :
     /\ Settled(c) /\ calls[c].outs = <<"abort">> /\ Len(calls[c].sent) = 1
     /\ isRefreshing /\ failedQueue # <<>>
     /\ store.auth # 0

\* C20: once clearAuthData has run to its end, no refreshToken() call is under
\* way and setAuthData was never called, the three slots are empty and the
\* default Authorization header is absent.
C20_LogoutNotUndone ==
  (logout.n >= 1 /\ logout.pc = "idle" /\ login.n = 0
     /\ \A c \in Calls : ~InExchange(c))
  => (store = EmptyStore /\ defaultAuth = NoHeader)

====
